---------------------------- MODULE Spec2Model ----------------------------
(***************************************************************************)
(* Model of pi_control_hub_driver_ir: the icon resolver                    *)
(* (icons/__init__.py) and the driver descriptor, device driver and        *)
(* command (device_driver.py).                                             *)
(*                                                                         *)
(* Python strings are sequences of one-character strings, so that          *)
(* os.path.splitext, string concatenation and the lexicographic order of   *)
(* sorted() are computed, not assumed.  A Python call is modelled by an    *)
(* operator that yields [outcome, value]: outcome "ok" with the returned   *)
(* value, or the name of the exception that leaves the call.               *)
(***************************************************************************)
EXTENDS Integers, Sequences, FiniteSets

VARIABLES
  cfgDir,        \* the directory <config path>/pi_control_hub_driver_ir on disk
  descriptor,    \* attributes of the LircDeviceDriverDescriptor instance
  driver,        \* attributes of the LircDeviceDriver instance held by the host
  commands,      \* [list]: what the latest get_commands() returned for that driver
  prevCommands,  \* [list]: what the get_commands() before it returned for that driver
  iconFiles,     \* the regular files of the icons package directory
  imageData,     \* icons.__image_data: filepath -> bytes
  loaded,        \* history: key -> the bytes read_icon_for_key first returned from <key>.png
  lircBound,     \* whether the global name `lirc` resolves in device_driver's namespace
  call,          \* the call of the host that is in flight, its position and locals
  ret            \* how the latest call of the host ended; Stale while a call is
                 \* in flight and once the environment has changed since

vars == <<cfgDir, descriptor, driver, commands, prevCommands,
          iconFiles, imageData, loaded, lircBound, call, ret>>

-----------------------------------------------------------------------------
(* Bounds of the model.                                                    *)

\* the largest number of entries the configuration directory holds
MaxFiles == 2

-----------------------------------------------------------------------------
(* Python values.                                                          *)

None == [py |-> "None"]

Ok(v) == [outcome |-> "ok", value |-> v]

Raise(e) == [outcome |-> e]

\* str + str
Concat(s, t) == s \o t

\* code points of the characters the model's strings use (ord)
Ord(c) ==
  CASE c = "." -> 46
    [] c = "D" -> 68
    [] c = "E" -> 69
    [] c = "L" -> 76
    [] c = "M" -> 77
    [] c = "N" -> 78
    [] c = "O" -> 79
    [] c = "P" -> 80
    [] c = "R" -> 82
    [] c = "T" -> 84
    [] c = "U" -> 85
    [] c = "V" -> 86
    [] c = "W" -> 87
    [] c = "_" -> 95
    [] c = "l" -> 108
    [] c = "o" -> 111
    [] c = "v" -> 118

\* str < str: the first differing code point decides, a proper prefix is less
RECURSIVE StrLess(_, _)
StrLess(s, t) ==
  IF t = <<>> THEN FALSE
  ELSE IF s = <<>> THEN TRUE
  ELSE IF Ord(Head(s)) # Ord(Head(t)) THEN Ord(Head(s)) < Ord(Head(t))
  ELSE StrLess(Tail(s), Tail(t))

\* sorted(list(keys), reverse=True): the order a wrong comparison would give
RECURSIVE SortedDescending(_)
SortedDescending(S) ==
  IF S = {} THEN <<>>
  ELSE LET m == CHOOSE x \in S : \A y \in S \ {x} : StrLess(y, x)
       IN  <<m>> \o SortedDescending(S \ {m})

\* sorted(list(keys)): ascending by StrLess
RECURSIVE Sorted(_)
Sorted(S) ==
  IF S = {} THEN <<>>
  ELSE LET m == CHOOSE x \in S : \A y \in S \ {x} : StrLess(x, y)
       IN  <<m>> \o Sorted(S \ {m})

\* os.path.splitext of a name without directory part: the extension starts at
\* the last dot, unless only dots precede it
SplitExt(f) ==
  LET dots == {i \in 1..Len(f) : f[i] = "."}
  IN  IF dots = {} THEN <<f, <<>>>>
      ELSE LET last == CHOOSE i \in dots : \A j \in dots : j <= i
           IN  IF \E j \in 1..(last - 1) : f[j] # "."
               THEN <<SubSeq(f, 1, last - 1), SubSeq(f, last, Len(f))>>
               ELSE <<f, <<>>>>

DotRemote == <<".", "r", "e", "m", "o", "t", "e">>

DotPng == <<".", "p", "n", "g">>

-----------------------------------------------------------------------------
(* The strings of the model.                                               *)

POWER == <<"P", "O", "W", "E", "R">>

VOL_UP == <<"V", "O", "L", "_", "U", "P">>

VOL_DOWN == <<"V", "O", "L", "_", "D", "O", "W", "N">>

VOL == <<"V", "O", "L">>

MUTE == <<"M", "U", "T", "E">>

LowerVol == <<"v", "o", "l">>

UnknownKey == <<"u", "n", "k", "n", "o", "w", "n">>

Tv == <<"t", "v">>

Hifi == <<"h", "i", "f", "i">>

\* names a directory entry of the configuration directory may have
FileNames ==
  { Concat(Tv, DotRemote),
    Concat(Hifi, DotRemote),
    Tv,
    DotRemote,
    Concat(Tv, <<".", "j", "s", "o", "n">>) }

\* device ids the host asks for
DeviceIds == {Concat(Tv, DotRemote), Concat(Hifi, DotRemote), Tv, Hifi}

\* a JSON object: a function from its member names
KeyCodes(K) == [k \in K |-> "code"]

\* texts a file of the configuration directory may hold
FileContents == {"not json", "mute 4x6", "five keys", "no size"}

\* the texts of the files written while the directory is enumerated:
\* get_devices and get_device read no file
WrittenContents == {"mute 4x6"}

\* json.loads(content)
JsonLoads(content) ==
  CASE content = "mute 4x6" ->
         Ok([keys   |-> KeyCodes({MUTE}),
             remote |-> [width |-> 4, height |-> 6, layout |-> <<>>]])
    [] content = "five keys" ->
         Ok([keys |-> KeyCodes({VOL_UP, POWER, LowerVol, VOL_DOWN, VOL})])
    [] content = "no size" ->
         Ok([keys   |-> KeyCodes({}),
             remote |-> [layout |-> <<>>]])
    [] OTHER -> Raise("JSONDecodeError")

DirEntries ==
  {[kind |-> "dir"]} \cup {[kind |-> "file", content |-> c] : c \in WrittenContents}

-----------------------------------------------------------------------------
(* Objects and maps.                                                       *)

\* a name that is bound to no object yet
NoObject == [py |-> "unbound"]

EmptyMap == [x \in {} |-> None]

\* ret when a file, a directory or a binding changed after the latest call
Stale == [op |-> "stale"]

\* call when the host is inside no call
Idle == [pc |-> "idle"]

\* positions of the calls that record whether the directory, or the icon
\* files, changed while they were in flight
DirectorySteps == {"isfile", "open"}
IconSteps == {"read_icon"}

\* call after the environment changed what the calls at `steps` look at: the
\* call in flight was not alone
Disturb(c, steps) == IF c.pc \in steps THEN [c EXCEPT !.quiet = FALSE] ELSE c

\* d[k] = v on a dict
Put(d, k, v) == [x \in DOMAIN d \cup {k} |-> IF x = k THEN v ELSE d[x]]

\* del d[k]
Drop(d, k) == [x \in DOMAIN d \ {k} |-> d[x]]

\* os.path.join(directory, name)
Join(dir, name) == Concat(Concat(dir, <<"/">>), name)

AbsentDir == [exists |-> FALSE]

\* os.path.isdir(path of the configuration directory)
IsDir(dir) == dir.exists

\* os.path.isfile(os.path.join(path of the configuration directory, f))
IsFile(dir, f) ==
  /\ dir.exists
  /\ f \in DOMAIN dir.entries
  /\ dir.entries[f].kind = "file"

\* the orders in which os.listdir may return the names S: all of them
Orders(S) ==
  {s \in [1..Cardinality(S) -> S] :
     \A i \in 1..Cardinality(S), j \in 1..Cardinality(S) : s[i] = s[j] => i = j}

ListingOrders(dir) == IF dir.exists THEN Orders(DOMAIN dir.entries) ELSE {<<>>}

\* os.listdir(path), the file system returning the names in the order `order`
ListDir(dir, order) ==
  IF dir.exists THEN Ok(order) ELSE Raise("FileNotFoundError")

\* pi_control_hub_driver_api.DeviceInfo(name, device_id)
DeviceInfo(name, device_id) == [name |-> name, device_id |-> device_id]

\* the value os.path.join(get_config_path(), "pi_control_hub_driver_ir")
RemoteDefinitionPath == [py |-> "str", path |-> "pi_control_hub_driver_ir"]

-----------------------------------------------------------------------------
(* icons/__init__.py                                                       *)

\* icons.__directory
IconsDirectory == <<"i", "c", "o", "n", "s">>

UnknownPng == Concat(UnknownKey, DotPng)

\* pathlib.Path(filepath).is_file() in the icons directory
IconIsFile(files, filepath) == filepath \in DOMAIN files

\* __read_icon without the cache lookup: every call reads the file and
\* stores what it read
ReadIconUncached(filename, files, cache) ==
  LET filepath == Join(IconsDirectory, filename)
  IN  IF filepath \in DOMAIN files
      THEN [res |-> Ok(files[filepath]), cache |-> Put(cache, filepath, files[filepath])]
      ELSE [res |-> Raise("FileNotFoundError"), cache |-> cache]

\* __read_icon(filename) on the files as they are at its open() and the cache
\* given: the result and the cache it leaves
ReadIcon(filename, files, cache) ==
  LET filepath == Join(IconsDirectory, filename)
  IN  IF filepath \in DOMAIN cache
      THEN [res |-> Ok(cache[filepath]), cache |-> cache]
      ELSE IF filepath \in DOMAIN files
      THEN [res |-> Ok(files[filepath]), cache |-> Put(cache, filepath, files[filepath])]
      ELSE [res |-> Raise("FileNotFoundError"), cache |-> cache]

\* unknown()
Unknown(files, cache) == ReadIcon(UnknownPng, files, cache)

\* read_icon_for_key(key) up to its call of __read_icon: the is_file test on the
\* files as they are then, and the file name it goes on to read
IconFilename(key, files) ==
  LET filepath == Concat(Join(IconsDirectory, key), DotPng)
  IN  IF ~IconIsFile(files, filepath)
      THEN UnknownPng
      ELSE Concat(key, DotPng)

-----------------------------------------------------------------------------
(* device_driver.py: LircDeviceDriverDescriptor                            *)

\* LircDeviceDriverDescriptor.__init__
NewLircDeviceDriverDescriptor(dir) ==
  [_remote_defition_path |-> IF ~IsDir(dir) THEN None ELSE RemoteDefinitionPath]

\* get_devices up to os.listdir: the names it goes on to test, none when the
\* descriptor holds no path
GetDevicesListing(self, dir, order) ==
  IF self._remote_defition_path # None
  THEN ListDir(dir, order)
  ELSE Ok(<<>>)

\* the condition of the comprehension of get_devices on the name f, on the
\* directory as it is at this os.path.isfile
IsRemote(dir, f) ==
  /\ IsFile(dir, f)
  /\ Len(SplitExt(f)) > 1
  /\ SplitExt(f)[2] = DotRemote

\* the list get_devices returns for the names that passed
DeviceInfos(remotes) ==
  [i \in 1..Len(remotes) |-> DeviceInfo(SplitExt(remotes[i])[1], remotes[i])]

\* get_device without the filter on device_id: the first listed device
GetDeviceUnfiltered(devices, device_id) ==
  IF Len(devices) = 0
  THEN Raise("DeviceNotFoundException")
  ELSE Ok(devices[1])

\* LircDeviceDriverDescriptor.get_device, on the list get_devices returned to it
GetDevice(devices, device_id) ==
  LET found == SelectSeq(devices, LAMBDA d : d.device_id = device_id)
  IN  IF Len(found) = 0
      THEN Raise("DeviceNotFoundException")
      ELSE Ok(found[1])

-----------------------------------------------------------------------------
(* device_driver.py: LircDeviceDriver                                      *)

\* LircDeviceDriver.__init__: open and parse <configuration directory>/<device_id>,
\* on the directory as it is at the open()
NewLircDeviceDriver(device_info, dir) ==
  LET filepath == device_info.device_id
  IN  IF ~IsFile(dir, filepath) THEN Raise("DeviceDriverException")
      ELSE LET parsed == JsonLoads(dir.entries[filepath].content)
           IN  IF parsed.outcome # "ok" THEN Raise("DeviceDriverException")
               ELSE Ok([device_info        |-> device_info,
                        _remote_definition |-> parsed.value])

\* LircDeviceCommand.__init__, with the icon read_icon_for_key(key) returned
LircDeviceCommand(cmd_id, title, icon, key, device_id) ==
  [id |-> cmd_id, title |-> title, icon |-> icon, _key |-> key, _device_id |-> device_id]

\* get_commands up to its loop: the sorted keys it goes on to make commands of
GetCommandsKeys(self) ==
  IF "keys" \notin DOMAIN self._remote_definition
  THEN Raise("KeyError")
  ELSE Ok(Sorted(DOMAIN self._remote_definition.keys))

\* LircDeviceDriver.remote_layout_size
RemoteLayoutSize(self) ==
  IF "remote" \notin DOMAIN self._remote_definition THEN Raise("KeyError")
  ELSE LET remote == self._remote_definition.remote
       IN  IF "width" \notin DOMAIN remote \/ "height" \notin DOMAIN remote
           THEN Raise("KeyError")
           ELSE Ok(<<remote.width, remote.height>>)

\* LircDeviceDriver.is_device_ready
IsDeviceReady(self) ==
  IF "_lirc_client" \notin DOMAIN self THEN Raise("AttributeError")
  ELSE Ok(self._lirc_client # None)

-----------------------------------------------------------------------------
(* device_driver.py: LircDeviceCommand.execute                             *)

\* what lirc.Client() may do when the name resolves
ConnectOutcomes == {"ok", "LircdConnectionError"}

\* what lirc_client.send_once may do
SendOutcomes == {"ok", "LircdConnectionError", "LircdCommandFailureError"}

NoChannel == [acquired |-> FALSE, requests |-> <<>>, closed |-> FALSE]

\* LircDeviceCommand.execute: how it ends and what it did with the channel.
\* `bound` says whether the name lirc resolves; connect and send are what
\* the daemon lets lirc.Client() and send_once do.
Execute(self, bound, connect, send) ==
  IF ~bound
  THEN \* line 46 raises NameError; evaluating the except clause of line 49
       \* looks the name up again and raises NameError out of execute
       [res |-> Raise("NameError"), channel |-> NoChannel]
  ELSE IF connect # "ok"
  THEN [res |-> Ok(None), channel |-> NoChannel]
  ELSE LET signal == <<self._device_id, self._key>>
       IN  IF send = "ok"
           THEN [res     |-> Ok(None),
                 channel |-> [acquired |-> TRUE, requests |-> <<signal>>, closed |-> TRUE]]
           ELSE IF send = "LircdConnectionError"
           THEN [res     |-> Ok(None),
                 channel |-> [acquired |-> TRUE, requests |-> <<signal>>, closed |-> FALSE]]
           ELSE [res     |-> Raise(send),
                 channel |-> [acquired |-> TRUE, requests |-> <<signal>>, closed |-> FALSE]]

-----------------------------------------------------------------------------
(* History of the icons read_icon_for_key loaded from <key>.png.           *)

KeyIconPath(key) == Concat(Join(IconsDirectory, key), DotPng)

\* `hist` after read_icon_for_key(key) read `filename` and returned r
Remember(hist, key, filename, r) ==
  IF /\ filename = Concat(key, DotPng)
     /\ r.res.outcome = "ok"
     /\ key \notin DOMAIN hist
  THEN Put(hist, key, r.res.value)
  ELSE hist

-----------------------------------------------------------------------------
(* The state after the modules are imported.                               *)

\* what an icon file may hold; "" is a file created and not yet written
IconBytes == {"", "png-a", "png-b"}

\* keys with an icon of their own
IconKeys == {POWER, MUTE}

Init ==
  /\ cfgDir = AbsentDir
  /\ descriptor = NoObject
  /\ driver = NoObject
  /\ commands = None
  /\ prevCommands = None
  /\ iconFiles = Put(Put(EmptyMap, Join(IconsDirectory, UnknownPng), "png-a"),
                     KeyIconPath(POWER), "png-b")
  /\ imageData = EmptyMap
  /\ loaded = EmptyMap
  /\ lircBound = FALSE
  /\ call = Idle
  /\ ret = [op |-> "import"]

-----------------------------------------------------------------------------
(* The environment: the configuration directory.                           *)

MakeDir ==
  /\ ~cfgDir.exists
  /\ cfgDir' = [exists |-> TRUE, entries |-> EmptyMap]
  /\ call' = Disturb(call, DirectorySteps)
  /\ ret' = Stale
  /\ UNCHANGED <<descriptor, driver, commands, prevCommands,
                 iconFiles, imageData, loaded, lircBound>>

RemoveDir ==
  /\ cfgDir.exists
  /\ cfgDir' = AbsentDir
  /\ call' = Disturb(call, DirectorySteps)
  /\ ret' = Stale
  /\ UNCHANGED <<descriptor, driver, commands, prevCommands,
                 iconFiles, imageData, loaded, lircBound>>

WriteEntry ==
  /\ cfgDir.exists
  /\ \E f \in FileNames, e \in DirEntries :
       /\ f \in DOMAIN cfgDir.entries \/ Cardinality(DOMAIN cfgDir.entries) < MaxFiles
       /\ cfgDir' = [cfgDir EXCEPT !.entries = Put(cfgDir.entries, f, e)]
       /\ cfgDir' # cfgDir
  /\ call' = Disturb(call, DirectorySteps)
  /\ ret' = Stale
  /\ UNCHANGED <<descriptor, driver, commands, prevCommands,
                 iconFiles, imageData, loaded, lircBound>>

RemoveEntry ==
  /\ cfgDir.exists
  /\ \E f \in DOMAIN cfgDir.entries :
       cfgDir' = [cfgDir EXCEPT !.entries = Drop(cfgDir.entries, f)]
  /\ call' = Disturb(call, DirectorySteps)
  /\ ret' = Stale
  /\ UNCHANGED <<descriptor, driver, commands, prevCommands,
                 iconFiles, imageData, loaded, lircBound>>

\* the hosting process binds the name lirc in device_driver's namespace
\* (the module itself imports piir and never lirc)
HostBindsLirc ==
  /\ ~lircBound
  /\ lircBound' = TRUE
  /\ ret' = Stale
  /\ UNCHANGED <<cfgDir, descriptor, driver, commands, prevCommands,
                 iconFiles, imageData, loaded, call>>

-----------------------------------------------------------------------------
(* The calls of the host.  The host is one thread and the coroutines never *)
(* suspend: one call is in flight at a time.  A call that makes several    *)
(* system calls takes one step for each, and the environment may step in   *)
(* between.                                                                *)

\* get_driver_descriptor()
GetDriverDescriptorCall ==
  /\ call = Idle
  /\ descriptor' = NewLircDeviceDriverDescriptor(cfgDir)
  /\ ret' = [op |-> "get_driver_descriptor"]
  /\ UNCHANGED <<cfgDir, driver, commands, prevCommands,
                 iconFiles, imageData, loaded, lircBound, call>>

\* get_devices has tested every listed name and `remotes` passed: how the call
\* `op` goes on, as the call in flight or as the result of the completed call
Listed(op, arg, remotes, quiet) ==
  LET devices == Ok(DeviceInfos(remotes))
      found   == GetDevice(devices.value, arg)
  IN  IF op = "get_devices"
      THEN [call |-> Idle,
            ret  |-> [op |-> op, arg |-> arg, res |-> devices,
                      listed |-> devices, quiet |-> quiet]]
      ELSE IF op = "get_device" \/ found.outcome # "ok"
      THEN [call |-> Idle,
            ret  |-> [op |-> op, arg |-> arg, res |-> found,
                      listed |-> devices, quiet |-> quiet]]
      ELSE [call |-> [pc |-> "open", op |-> op, arg |-> arg, info |-> found.value,
                      listed |-> devices, quiet |-> quiet],
            ret  |-> Stale]

\* the call `op` enters get_devices: os.listdir, or no system call at all when
\* the descriptor holds no path or the directory is empty
EnterGetDevices(op, arg, order) ==
  LET listing == GetDevicesListing(descriptor, cfgDir, order)
  IN  IF listing.outcome # "ok"
      THEN [call |-> Idle,
            ret  |-> [op |-> op, arg |-> arg, res |-> listing,
                      listed |-> listing, quiet |-> TRUE]]
      ELSE IF listing.value = <<>>
      THEN Listed(op, arg, <<>>, TRUE)
      ELSE [call |-> [pc |-> "isfile", op |-> op, arg |-> arg,
                      names |-> listing.value, i |-> 1,
                      remotes |-> <<>>, quiet |-> TRUE],
            ret  |-> Stale]

\* descriptor.get_devices()
GetDevicesCall ==
  /\ call = Idle
  /\ descriptor # NoObject
  /\ \E order \in ListingOrders(cfgDir) :
       LET next == EnterGetDevices("get_devices", None, order)
       IN  /\ call' = next.call
           /\ ret' = next.ret
  /\ UNCHANGED <<cfgDir, descriptor, driver, commands, prevCommands,
                 iconFiles, imageData, loaded, lircBound>>

\* descriptor.get_device(device_id)
GetDeviceCall ==
  /\ call = Idle
  /\ descriptor # NoObject
  /\ \E id \in DeviceIds, order \in ListingOrders(cfgDir) :
       LET next == EnterGetDevices("get_device", id, order)
       IN  /\ call' = next.call
           /\ ret' = next.ret
  /\ UNCHANGED <<cfgDir, descriptor, driver, commands, prevCommands,
                 iconFiles, imageData, loaded, lircBound>>

\* descriptor.create_device_instance(device_id), up to the construction of the
\* driver
CreateDeviceInstanceCall ==
  /\ call = Idle
  /\ descriptor # NoObject
  /\ \E id \in DeviceIds, order \in ListingOrders(cfgDir) :
       LET next == EnterGetDevices("create_device_instance", id, order)
       IN  /\ call' = next.call
           /\ ret' = next.ret
  /\ UNCHANGED <<cfgDir, descriptor, driver, commands, prevCommands,
                 iconFiles, imageData, loaded, lircBound>>

\* the comprehension of get_devices tests its next name: one os.path.isfile
IsFileStep ==
  /\ call.pc = "isfile"
  /\ LET f       == call.names[call.i]
         remotes == IF IsRemote(cfgDir, f) THEN Append(call.remotes, f)
                                           ELSE call.remotes
         next    == IF call.i < Len(call.names)
                    THEN [call |-> [call EXCEPT !.i = call.i + 1, !.remotes = remotes],
                          ret  |-> Stale]
                    ELSE Listed(call.op, call.arg, remotes, call.quiet)
     IN  /\ call' = next.call
         /\ ret' = next.ret
  /\ UNCHANGED <<cfgDir, descriptor, driver, commands, prevCommands,
                 iconFiles, imageData, loaded, lircBound>>

\* create_device_instance constructs the driver of the device it found: the
\* open() and read of LircDeviceDriver.__init__
OpenStep ==
  /\ call.pc = "open"
  /\ LET r == NewLircDeviceDriver(call.info, cfgDir)
     IN  /\ ret' = [op |-> call.op, arg |-> call.arg, res |-> r,
                    listed |-> call.listed, quiet |-> call.quiet]
         /\ IF r.outcome = "ok"
            THEN /\ driver' = r.value
                 /\ commands' = None
                 /\ prevCommands' = None
            ELSE UNCHANGED <<driver, commands, prevCommands>>
  /\ call' = Idle
  /\ UNCHANGED <<cfgDir, descriptor, iconFiles, imageData, loaded, lircBound>>

\* driver.get_commands(), up to its loop over the sorted keys
GetCommandsCall ==
  /\ call = Idle
  /\ driver # NoObject
  /\ LET keys == GetCommandsKeys(driver)
     IN  IF keys.outcome # "ok"
         THEN /\ ret' = [op |-> "get_commands", res |-> keys]
              /\ UNCHANGED <<commands, prevCommands, call>>
         ELSE IF keys.value = <<>>
         THEN /\ ret' = [op |-> "get_commands", res |-> Ok(<<>>)]
              /\ commands' = [list |-> <<>>]
              /\ prevCommands' = commands
              /\ UNCHANGED call
         ELSE /\ call' = [pc |-> "command_is_file", keys |-> keys.value, i |-> 0,
                          done |-> <<>>]
              /\ ret' = Stale
              /\ UNCHANGED <<commands, prevCommands>>
  /\ UNCHANGED <<cfgDir, descriptor, driver, iconFiles, imageData, loaded, lircBound>>

\* LircDeviceCommand.__init__ of the next key calls read_icon_for_key(key),
\* which tests Path(filepath).is_file()
CommandIsFileStep ==
  /\ call.pc = "command_is_file"
  /\ call' = [pc |-> "command_read_icon", keys |-> call.keys, i |-> call.i,
              done |-> call.done,
              filename |-> IconFilename(call.keys[call.i + 1], iconFiles)]
  /\ ret' = Stale
  /\ UNCHANGED <<cfgDir, descriptor, driver, commands, prevCommands,
                 iconFiles, imageData, loaded, lircBound>>

\* read_icon_for_key goes on to __read_icon (cache lookup, open()), the
\* command is constructed and appended, and after the last key get_commands
\* returns the list
CommandReadIconStep ==
  /\ call.pc = "command_read_icon"
  /\ LET key  == call.keys[call.i + 1]
         r    == ReadIcon(call.filename, iconFiles, imageData)
         done == Append(call.done,
                        LircDeviceCommand(call.i, key, r.res.value, key,
                                          driver.device_info.device_id))
     IN  /\ imageData' = r.cache
         /\ loaded' = Remember(loaded, key, call.filename, r)
         /\ IF r.res.outcome # "ok"
            THEN /\ ret' = [op |-> "get_commands", res |-> r.res]
                 /\ call' = Idle
                 /\ UNCHANGED <<commands, prevCommands>>
            ELSE IF call.i + 1 < Len(call.keys)
            THEN /\ call' = [pc |-> "command_is_file", keys |-> call.keys,
                             i |-> call.i + 1, done |-> done]
                 /\ ret' = Stale
                 /\ UNCHANGED <<commands, prevCommands>>
            ELSE /\ ret' = [op |-> "get_commands", res |-> Ok(done)]
                 /\ call' = Idle
                 /\ commands' = [list |-> done]
                 /\ prevCommands' = commands
  /\ UNCHANGED <<cfgDir, descriptor, driver, iconFiles, lircBound>>

RemoteLayoutSizeCall ==
  /\ call = Idle
  /\ driver # NoObject
  /\ ret' = [op |-> "remote_layout_size", res |-> RemoteLayoutSize(driver)]
  /\ UNCHANGED <<cfgDir, descriptor, driver, commands, prevCommands,
                 iconFiles, imageData, loaded, lircBound, call>>

IsDeviceReadyCall ==
  /\ call = Idle
  /\ driver # NoObject
  /\ ret' = [op |-> "is_device_ready", res |-> IsDeviceReady(driver)]
  /\ UNCHANGED <<cfgDir, descriptor, driver, commands, prevCommands,
                 iconFiles, imageData, loaded, lircBound, call>>

\* LircDeviceDriver.execute(command), for a command of the latest list
ExecuteCall ==
  /\ call = Idle
  /\ driver # NoObject
  /\ commands # None
  /\ \E i \in 1..Len(commands.list), connect \in ConnectOutcomes, send \in SendOutcomes :
       LET r == Execute(commands.list[i], lircBound, connect, send)
       IN  ret' = [op |-> "execute", cmd |-> commands.list[i],
                   res |-> r.res, channel |-> r.channel]
  /\ UNCHANGED <<cfgDir, descriptor, driver, commands, prevCommands,
                 iconFiles, imageData, loaded, lircBound, call>>

-----------------------------------------------------------------------------
(* The environment and the calls of the icon resolver.                     *)

\* the icon files the environment creates, rewrites and deletes: the icons of
\* IconKeys and unknown.png, all of them package data (setup.py, "*.png")
ChangedIcons == IconKeys \cup {UnknownKey}

\* a process writes an icon file (creates it or replaces its bytes)
IconWrite ==
  /\ \E k \in ChangedIcons, b \in IconBytes :
       /\ iconFiles' = Put(iconFiles, KeyIconPath(k), b)
       /\ iconFiles' # iconFiles
  /\ call' = Disturb(call, IconSteps)
  /\ ret' = Stale
  /\ UNCHANGED <<cfgDir, descriptor, driver, commands, prevCommands,
                 imageData, loaded, lircBound>>

\* a process deletes an icon file
IconDelete ==
  /\ \E k \in ChangedIcons :
       /\ KeyIconPath(k) \in DOMAIN iconFiles
       /\ iconFiles' = Drop(iconFiles, KeyIconPath(k))
  /\ call' = Disturb(call, IconSteps)
  /\ ret' = Stale
  /\ UNCHANGED <<cfgDir, descriptor, driver, commands, prevCommands,
                 imageData, loaded, lircBound>>

\* keys the host resolves: with and without an icon file, and "unknown"
ResolvedKeys == IconKeys \cup {UnknownKey, VOL}

\* read_icon_for_key(key) tests Path(filepath).is_file()
ReadIconForKeyCall ==
  /\ call = Idle
  /\ \E key \in ResolvedKeys :
       call' = [pc |-> "read_icon", key |-> key,
                tested   |-> IconIsFile(iconFiles, KeyIconPath(key)),
                filename |-> IconFilename(key, iconFiles),
                quiet    |-> TRUE]
  /\ ret' = Stale
  /\ UNCHANGED <<cfgDir, descriptor, driver, commands, prevCommands,
                 iconFiles, imageData, loaded, lircBound>>

\* read_icon_for_key goes on to __read_icon: the cache lookup and the open()
ReadIconStep ==
  /\ call.pc = "read_icon"
  /\ LET r == ReadIcon(call.filename, iconFiles, imageData)
     IN  /\ ret' = [op |-> "read_icon_for_key", arg |-> call.key, res |-> r.res,
                    tested |-> call.tested, quiet |-> call.quiet]
         /\ imageData' = r.cache
         /\ loaded' = Remember(loaded, call.key, call.filename, r)
  /\ call' = Idle
  /\ UNCHANGED <<cfgDir, descriptor, driver, commands, prevCommands,
                 iconFiles, lircBound>>

\* unknown()
UnknownCall ==
  /\ call = Idle
  /\ LET r == Unknown(iconFiles, imageData)
     IN  /\ ret' = [op |-> "unknown", res |-> r.res]
         /\ imageData' = r.cache
  /\ UNCHANGED <<cfgDir, descriptor, driver, commands, prevCommands,
                 iconFiles, loaded, lircBound, call>>

-----------------------------------------------------------------------------
(* Specifications.                                                         *)

\* the driver descriptor enumerating a configuration directory that is
\* created, filled, emptied and removed
Next ==
  \/ MakeDir
  \/ RemoveDir
  \/ WriteEntry
  \/ RemoveEntry
  \/ GetDriverDescriptorCall
  \/ GetDevicesCall
  \/ GetDeviceCall
  \/ IsFileStep

Spec == Init /\ [][Next]_vars

\* the device driver and its commands, over a configuration directory that
\* holds two remote definitions when the process starts and loses them
InitDriver ==
  /\ \E c1 \in FileContents, c2 \in FileContents :
       cfgDir = [exists  |-> TRUE,
                 entries |-> Put(Put(EmptyMap, Concat(Tv, DotRemote),
                                     [kind |-> "file", content |-> c1]),
                                 Concat(Hifi, DotRemote),
                                 [kind |-> "file", content |-> c2])]
  /\ descriptor = NoObject
  /\ driver = NoObject
  /\ commands = None
  /\ prevCommands = None
  /\ iconFiles = Put(Put(EmptyMap, Join(IconsDirectory, UnknownPng), "png-a"),
                     KeyIconPath(POWER), "png-b")
  /\ imageData = EmptyMap
  /\ loaded = EmptyMap
  /\ lircBound = FALSE
  /\ call = Idle
  /\ ret = [op |-> "import"]

NextDriver ==
  \/ RemoveDir
  \/ RemoveEntry
  \/ HostBindsLirc
  \/ GetDriverDescriptorCall
  \/ GetDevicesCall
  \/ CreateDeviceInstanceCall
  \/ IsFileStep
  \/ OpenStep
  \/ IconDelete
  \/ GetCommandsCall
  \/ CommandIsFileStep
  \/ CommandReadIconStep
  \/ RemoteLayoutSizeCall
  \/ IsDeviceReadyCall
  \/ ExecuteCall

DriverSpec == InitDriver /\ [][NextDriver]_vars

\* the icon resolver and the icon files
NextIcons ==
  \/ IconWrite
  \/ IconDelete
  \/ ReadIconForKeyCall
  \/ ReadIconStep
  \/ UnknownCall

IconSpec == Init /\ [][NextIcons]_vars

-----------------------------------------------------------------------------
(* Vocabulary of the claims.                                               *)

EndsWith(s, suffix) ==
  /\ Len(s) >= Len(suffix)
  /\ SubSeq(s, Len(s) - Len(suffix) + 1, Len(s)) = suffix

\* the ids of the devices get_devices lists when nothing changes during the
\* call: none without a path, else the names of the directory that pass
ListedIds ==
  IF descriptor._remote_defition_path = None \/ ~cfgDir.exists THEN {}
  ELSE {f \in DOMAIN cfgDir.entries : IsRemote(cfgDir, f)}

\* the regular files "<id>.remote", id not empty, of the configuration directory
RemoteFiles ==
  IF ~cfgDir.exists THEN {}
  ELSE {f \in DOMAIN cfgDir.entries :
          /\ cfgDir.entries[f].kind = "file"
          /\ EndsWith(f, DotRemote)
          /\ Len(f) > Len(DotRemote)}

\* the id of "<id>.remote"
Stem(f) == SubSeq(f, 1, Len(f) - Len(DotRemote))

\* the file holds a valid remote definition with a layout size
HoldsSizedDefinition(f) ==
  LET parsed == JsonLoads(cfgDir.entries[f].content)
  IN  /\ parsed.outcome = "ok"
      /\ "remote" \in DOMAIN parsed.value
      /\ {"width", "height"} \subseteq DOMAIN parsed.value.remote

StoredSize(f) ==
  LET remote == JsonLoads(cfgDir.entries[f].content).value.remote
  IN  <<remote.width, remote.height>>

IdsOf(infos) == {infos[i].device_id : i \in 1..Len(infos)}

KeysOf(cmds) == [i \in 1..Len(cmds) |-> cmds[i]._key]

UnknownPath == Join(IconsDirectory, UnknownPng)

-----------------------------------------------------------------------------
(* C1 (as claimed; refuted under DriverSpec).  With a descriptor that sees *)
(* the configuration directory, get_devices() returns a device per regular *)
(* file "<id>.remote" with device_id = id, the file name's stem, and       *)
(* create_device_instance(id) succeeds for a file holding a valid remote   *)
(* definition, the driver's remote_layout_size being the stored            *)
(* (width, height).  Stated of the calls during which the directory did    *)
(* not change.                                                             *)
C1_StemIsDeviceId ==
  /\ ( /\ ret.op = "get_devices"
       /\ ret.quiet
       /\ descriptor._remote_defition_path # None
       /\ ret.res.outcome = "ok" )
     => IdsOf(ret.res.value) = {Stem(f) : f \in RemoteFiles}
  /\ \A f \in RemoteFiles :
       ( /\ ret.op = "create_device_instance"
         /\ ret.quiet
         /\ descriptor._remote_defition_path # None
         /\ ret.arg = Stem(f)
         /\ HoldsSizedDefinition(f) )
       => /\ ret.res.outcome = "ok"
          /\ RemoteLayoutSize(ret.res.value) = Ok(StoredSize(f))

-----------------------------------------------------------------------------
(* C2 (Spec).  Whenever get_devices() returns a list: get_device(d)        *)
(* returns a DeviceInfo of that list with device_id d if d is the          *)
(* device_id of a DeviceInfo of the list, and fails with                   *)
(* DeviceNotFoundException otherwise.  The list is the one get_devices()   *)
(* returned to get_device; when the directory did not change during the    *)
(* call it holds the ids any get_devices() call of that moment returns.    *)
C2_GetDeviceAgreesWithGetDevices ==
  (ret.op = "get_device" /\ ret.listed.outcome = "ok") =>
    /\ IF ret.arg \in IdsOf(ret.listed.value)
       THEN /\ ret.res.outcome = "ok"
            /\ ret.res.value.device_id = ret.arg
            /\ \E i \in 1..Len(ret.listed.value) : ret.listed.value[i] = ret.res.value
       ELSE ret.res = Raise("DeviceNotFoundException")
    /\ ret.quiet => IdsOf(ret.listed.value) = ListedIds

\* get_device found the second of two listed devices, the directory unchanged
C2_Witness ==
  /\ ret.op = "get_device"
  /\ ret.quiet
  /\ ret.res.outcome = "ok"
  /\ ret.listed.outcome = "ok"
  /\ Len(ret.listed.value) = 2
  /\ ret.listed.value[2].device_id = ret.arg

-----------------------------------------------------------------------------
(* C3 (DriverSpec).  For a driver whose remote definition has the key set  *)
(* K, get_commands() returns Cardinality(K) commands with ids 0..n-1, one  *)
(* per key of K, in strictly ascending lexicographic order of the keys,    *)
(* and two calls on the same driver return the same ids and keys in the    *)
(* same order.                                                             *)
C3_CommandsSortedAndNumbered ==
  commands # None =>
    LET K  == DOMAIN driver._remote_definition.keys
        cs == commands.list
    IN  /\ Len(cs) = Cardinality(K)
        /\ \A i \in 1..Len(cs) : cs[i].id = i - 1 /\ cs[i]._key \in K
        /\ \A i \in 1..Len(cs), j \in 1..Len(cs) :
             i < j => StrLess(cs[i]._key, cs[j]._key)
        /\ prevCommands # None =>
             /\ KeysOf(prevCommands.list) = KeysOf(cs)
             /\ \A i \in 1..Len(cs) : prevCommands.list[i].id = cs[i].id

\* two calls on the driver of the five-key remote, in Python's order of the keys
C3_Witness ==
  /\ commands # None
  /\ prevCommands # None
  /\ KeysOf(commands.list) = <<POWER, VOL, VOL_DOWN, VOL_UP, LowerVol>>

-----------------------------------------------------------------------------
(* C4 (as claimed; refuted under Spec).  A get_devices() call made while   *)
(* the configuration directory is absent, from its first step to its last, *)
(* returns the empty sequence and does not raise.                          *)
C4_AbsentDirectoryListsNothing ==
  (ret.op = "get_devices" /\ ret.quiet /\ ~cfgDir.exists) => ret.res = Ok(<<>>)

-----------------------------------------------------------------------------
(* C5 (as claimed; refuted under DriverSpec).  An execute() that could not *)
(* establish a transmission channel completes without raising and without  *)
(* sending.                                                                *)
C5_NoChannelIsSwallowed ==
  (ret.op = "execute" /\ ~ret.channel.acquired) =>
    /\ ret.res.outcome = "ok"
    /\ ret.channel.requests = <<>>

-----------------------------------------------------------------------------
(* C6 (as claimed; refuted under DriverSpec).  is_device_ready of a        *)
(* constructed driver returns a boolean without raising, true exactly when *)
(* the driver holds its parsed remote definition.                          *)
C6_ReadinessIsBoolean ==
  ret.op = "is_device_ready" =>
    /\ ret.res.outcome = "ok"
    /\ ret.res.value \in BOOLEAN
    /\ ret.res.value = ("_remote_definition" \in DOMAIN driver)

-----------------------------------------------------------------------------
(* C7 (as claimed; refuted under IconSpec).  A read_icon_for_key(key) that *)
(* completes while no file <key>.png exists has not raised and returns the *)
(* bytes of the fallback icon, the bytes cached for unknown.png that       *)
(* unknown() returns.  Stated of the calls that complete while the         *)
(* fallback icon is at hand, cached or on disk.                            *)
C7_MissingIconFallsBack ==
  ( /\ ret.op = "read_icon_for_key"
    /\ ~IconIsFile(iconFiles, KeyIconPath(ret.arg))
    /\ UnknownPath \in DOMAIN imageData \/ IconIsFile(iconFiles, UnknownPath) )
  =>
    /\ ret.res.outcome = "ok"
    /\ UnknownPath \in DOMAIN imageData
    /\ ret.res.value = imageData[UnknownPath]
    /\ Unknown(iconFiles, imageData).res = ret.res

-----------------------------------------------------------------------------
(* C8 (as claimed; refuted under DriverSpec).  remote_layout_size of a     *)
(* driver whose remote definition has no "remote" entry, or no width or    *)
(* height in it, returns (0, 0) and does not raise.                        *)
C8_NoLayoutGivesZeroSize ==
  ( /\ ret.op = "remote_layout_size"
    /\ \/ "remote" \notin DOMAIN driver._remote_definition
       \/ ~({"width", "height"} \subseteq DOMAIN driver._remote_definition.remote) )
  => ret.res = Ok(<<0, 0>>)

-----------------------------------------------------------------------------
(* C9 (as claimed; refuted under DriverSpec).  An execute() that acquired  *)
(* a channel asked it for exactly one signal, (device_id, key) of the      *)
(* command, and has closed the channel when it completes, also when the    *)
(* send failed.                                                            *)
C9_OneSignalAndChannelClosed ==
  (ret.op = "execute" /\ ret.channel.acquired) =>
    /\ ret.channel.requests = <<<<ret.cmd._device_id, ret.cmd._key>>>>
    /\ ret.channel.closed

-----------------------------------------------------------------------------
(* C10.  The cache only grows: a step removes or overwrites no entry.      *)
CacheOnlyGrows ==
  \A p \in DOMAIN imageData :
    p \in DOMAIN imageData' /\ imageData'[p] = imageData[p]

(* C10 (as claimed; refuted under IconSpec).  Once read_icon_for_key(key)  *)
(* has returned the bytes loaded from <key>.png, every later               *)
(* read_icon_for_key(key) returns those bytes, whatever happened to the    *)
(* file, and no cache entry is removed or overwritten.                     *)
C10_LoadedIconReturnedForEver ==
  [][ /\ (ret'.op = "read_icon_for_key" /\ ret'.arg \in DOMAIN loaded)
         => ret'.res = Ok(loaded[ret'.arg])
      /\ CacheOnlyGrows ]_vars

(* C10 (amended, IconSpec).  Once read_icon_for_key(key) has returned the  *)
(* bytes loaded from <key>.png, a later read_icon_for_key(key) that finds   *)
(* <key>.png a regular file at its is_file test returns those bytes, also  *)
(* when the file's bytes were replaced or the file was deleted after the   *)
(* test; no cache entry is removed or overwritten.                         *)
C10_LoadedIconReturnedWhileFileExists ==
  [][ /\ (ret'.op = "read_icon_for_key" /\ ret'.arg \in DOMAIN loaded /\ ret'.tested)
         => ret'.res = Ok(loaded[ret'.arg])
      /\ CacheOnlyGrows ]_vars

\* the icon of a key was loaded, its file rewritten, and a later call that
\* found the file returned the bytes first loaded
C10_Witness ==
  /\ ret.op = "read_icon_for_key"
  /\ ret.arg \in IconKeys
  /\ ret.arg \in DOMAIN loaded
  /\ ret.tested
  /\ IconIsFile(iconFiles, KeyIconPath(ret.arg))
  /\ iconFiles[KeyIconPath(ret.arg)] # loaded[ret.arg]
  /\ ret.res = Ok(loaded[ret.arg])

=============================================================================
